---- MODULE Spec2Model ----
(***************************************************************************)
(* Model of launch_manager.py: the LaunchManager window (catalog, search,  *)
(* delete, refresh), the content renderer and the line highlighter.        *)
(* Text is a sequence of one-character strings, so find/rfind/in/lower     *)
(* and endswith are computed character by character as Python does.        *)
(***************************************************************************)
EXTENDS Integers, Sequences, FiniteSets, TLC

VARIABLES
    dir_kind,        \* filesystem: folder index -> "dir" | "missing" | "noperm" | "notdir"
    dir_files,       \* filesystem: folder index -> set of file names in it
    file_ro,         \* filesystem: set of <<index, name>> for which os.access(W_OK) is False
    all_files,       \* self.all_files: folder index -> file names in insertion order
    current_row,     \* self.folder_list.currentRow()
    file_list,       \* self.file_list items
    selected,        \* self.file_list.selectedItems() (as a set of names)
    file_current,    \* self.file_list.currentItem(): its text, or NoItem
    search_input,    \* self.search_input.text()
    search_results,  \* self.search_results_list items (their SearchResult data)
    preview_text,    \* self.preview_text content
    dialog,          \* the QMessageBoxes shown by the handler that ran last, in order
    success_count,   \* delete_file: success_count when the handler that ran last ended
    error_messages,  \* delete_file: error_messages when the handler that ran last ended
    del_attempts,    \* delete_file: what each item of the loop met, in loop order
    del_items,       \* delete_file: selected_items when the handler that ran last ended
    gone,            \* the <<index, name>> that os.remove has removed
    raised,          \* "none", or the function an exception left (the slot is aborted)
    env_steps,       \* number of external filesystem changes so far
    file,            \* the file being rendered: whether it exists, reads as UTF-8, its text
    preview_cursor,  \* self.preview_text.textCursor().position()
    preview_scroll,  \* what _scroll_to_working_directory(self.preview_text) returned last
    preview_met,     \* what the last load_file_preview met: the tool's outcome
    content_text,    \* FileContentDialog.content_text content
    content_cursor,  \* FileContentDialog.content_text.textCursor().position()
    content_scroll,  \* what FileContentDialog._scroll_to_working_directory returned
    content_met,     \* what the last load_file_content met: the tool's outcome
    found_working_dir_key,  \* WorkingDirectoryHighlighter.found_working_dir_key
    hl_lines,        \* the blocks highlightBlock has been called on, in order
    hl_format,       \* the offsets of the last block that carry working_dir_format
    hl_set           \* per block, whether highlightBlock assigned True to the flag

fsvars == <<dir_kind, dir_files, file_ro>>
uivars == <<all_files, current_row, file_list, selected, file_current, search_input,
            search_results, preview_text>>
locals == <<success_count, error_messages, del_attempts, del_items>>
opvars == <<dialog, locals, gone, raised, env_steps>>
viewvars == <<file, preview_cursor, preview_scroll, preview_met, content_text,
              content_cursor, content_scroll, content_met>>
previewvars == <<preview_cursor, preview_scroll, preview_met>>
dialogvars == <<file, content_text, content_cursor, content_scroll, content_met>>
hlvars == <<found_working_dir_key, hl_lines, hl_format, hl_set>>
vars == <<fsvars, uivars, opvars, viewvars, hlvars>>

----------------------------------------------------------------------------
(* Bounds *)
MaxFiles == 2      \* files on disk in the five folders together
MaxEnv == 1        \* external filesystem changes in one run

----------------------------------------------------------------------------
(* Text helpers: Python's str operations on character sequences *)

UpperChars == <<"A","B","C","D","E","F","G","H","I","J","K","L","M",
                "N","O","P","Q","R","S","T","U","V","W","X","Y","Z">>
LowerChars == <<"a","b","c","d","e","f","g","h","i","j","k","l","m",
                "n","o","p","q","r","s","t","u","v","w","x","y","z">>

\* the lower-case letter of each upper-case letter
LowerOf ==
    [c \in {UpperChars[k] : k \in 1..Len(UpperChars)} |->
        LowerChars[CHOOSE k \in 1..Len(UpperChars) : UpperChars[k] = c]]

\* str.lower() on one character
LowerChar(c) == IF c \in DOMAIN LowerOf THEN LowerOf[c] ELSE c

\* str.lower()
Lower(s) == [k \in 1..Len(s) |-> LowerChar(s[k])]

\* s[lo:hi] with 0 <= lo, hi (Python slice, clipped to the string)
Slice(s, lo, hi) ==
    LET h == IF hi > Len(s) THEN Len(s) ELSE hi
    IN  IF lo >= h THEN <<>> ELSE SubSeq(s, lo + 1, h)

\* whether p occurs in s at 0-based offset k
OccursAt(s, p, k) == k >= 0 /\ k + Len(p) <= Len(s) /\ SubSeq(s, k + 1, k + Len(p)) = p

\* p in s
Contains(s, p) == \E k \in 0..Len(s) : OccursAt(s, p, k)

\* s.find(p, from): lowest offset >= from, or -1
Find(s, p, from) ==
    IF \E k \in from..Len(s) : OccursAt(s, p, k)
    THEN CHOOSE k \in from..Len(s) :
            OccursAt(s, p, k) /\ \A j \in from..(k - 1) : ~OccursAt(s, p, j)
    ELSE -1

\* s.rfind(p, lo, hi): highest offset k >= lo with k + len(p) <= hi, or -1
RFind(s, p, lo, hi) ==
    LET ok(k) == OccursAt(s, p, k) /\ k + Len(p) <= hi
    IN  IF \E k \in lo..hi : ok(k)
        THEN CHOOSE k \in lo..hi : ok(k) /\ \A j \in (k + 1)..hi : ~ok(j)
        ELSE -1

\* s.endswith(p)
EndsWith(s, p) == Len(s) >= Len(p) /\ SubSeq(s, Len(s) - Len(p) + 1, Len(s)) = p

PlistExt == <<".","p","l","i","s","t">>

----------------------------------------------------------------------------
(* Configuration *)

NumFolders == 5
Folders == 0..(NumFolders - 1)

folders == << "~/Library/LaunchAgents", "/System/Library/LaunchAgents",
              "/System/Library/LaunchDaemons", "/Library/LaunchAgents",
              "/Library/LaunchDaemons" >>

FolderPath(i) == folders[i + 1]

\* os.path.join(folder_path, file_name)
JoinPath(folder_path, file_name) == <<folder_path, file_name>>

----------------------------------------------------------------------------
(* The filesystem as the program sees it *)

NameA == <<"a">> \o PlistExt
NameB == <<"B">> \o PlistExt
NameT == <<"c",".","t","x","t">>
NameSpaces == <<"A"," "," "," ">> \o PlistExt
NameMixed == <<"a","B">> \o PlistExt

\* the order in which os.listdir returns the entries of a directory
DirOrder == <<NameA, NameB, NameT, NameSpaces, NameMixed>>

\* the file names of the window model, and those of the search model
Names == {NameA, NameB, NameT}
SearchNames == {NameSpaces, NameMixed, NameB}

Kinds == {"dir", "missing", "noperm", "notdir"}

\* os.path.exists(folder_path)
FolderExists(kind, i) == kind[i] # "missing"

\* os.path.exists(os.path.join(folder_path, name))
FileExists(kind, files, i, n) == kind[i] \in {"dir", "noperm"} /\ n \in files[i]

\* os.access(file_path, os.W_OK)
FileWritable(ro, i, n) == <<i, n>> \notin ro

\* os.listdir(folder_path): the entries, or the exception it raises
ListDir(kind, files, i) ==
    CASE kind[i] = "dir" ->
            [exc |-> "none", names |-> SelectSeq(DirOrder, LAMBDA n : n \in files[i])]
      [] kind[i] = "noperm" -> [exc |-> "PermissionError", names |-> <<>>]
      [] kind[i] = "notdir" -> [exc |-> "NotADirectoryError", names |-> <<>>]
      [] OTHER -> [exc |-> "FileNotFoundError", names |-> <<>>]

IsPlist(n) == EndsWith(n, PlistExt)

----------------------------------------------------------------------------
(* load_all_files *)

RECURSIVE LoadAllFrom(_, _, _, _)
\* the loop of load_all_files from folder index i on, acc being self.all_files so far
LoadAllFrom(i, acc, kind, files) ==
    IF i = NumFolders THEN [all_files |-> acc, raised |-> FALSE]
    ELSE LET acc1 == acc @@ (i :> <<>>)
             r == ListDir(kind, files, i)
         IN  IF ~FolderExists(kind, i) THEN LoadAllFrom(i + 1, acc1, kind, files)
             ELSE CASE r.exc = "none" ->
                         LoadAllFrom(i + 1,
                                     [acc1 EXCEPT ![i] = SelectSeq(r.names, IsPlist)],
                                     kind, files)
                    [] r.exc = "PermissionError" -> LoadAllFrom(i + 1, acc1, kind, files)
                    [] OTHER -> [all_files |-> acc1, raised |-> TRUE]

\* load_all_files on the filesystem (kind, files): the new self.all_files, and
\* whether an exception left the function
LoadAllFiles(kind, files) == LoadAllFrom(0, <<>>, kind, files)

----------------------------------------------------------------------------
(* search_files *)

SearchResult(file_name, folder_path, folder_index) ==
    [file_name |-> file_name, folder_path |-> folder_path, folder_index |-> folder_index]

\* the indices of a catalog in insertion (ascending) order
RECURSIVE KeysFrom(_, _)
KeysFrom(i, catalog) ==
    IF i = NumFolders THEN <<>>
    ELSE (IF i \in DOMAIN catalog THEN <<i>> ELSE <<>>) \o KeysFrom(i + 1, catalog)

\* an inner loop that matches the lowered term against the name as spelled
MatchesInAsSpelled(search_term, catalog, i) ==
    LET hit == SelectSeq(catalog[i], LAMBDA n : Contains(n, search_term))
    IN  [k \in 1..Len(hit) |-> SearchResult(hit[k], FolderPath(i), i)]

\* the inner loop of search_files over one folder's files
MatchesIn(search_term, catalog, i) ==
    LET hit == SelectSeq(catalog[i], LAMBDA n : Contains(Lower(n), search_term))
    IN  [k \in 1..Len(hit) |-> SearchResult(hit[k], FolderPath(i), i)]

RECURSIVE MatchesOver(_, _, _)
MatchesOver(keys, search_term, catalog) ==
    IF keys = <<>> THEN <<>>
    ELSE MatchesIn(search_term, catalog, Head(keys))
            \o MatchesOver(Tail(keys), search_term, catalog)

\* search_files: the result list for the text of the search box
SearchFiles(text, catalog) ==
    LET search_term == Lower(text)
    IN  IF search_term = <<>> THEN <<>>
        ELSE MatchesOver(KeysFrom(0, catalog), search_term, catalog)

----------------------------------------------------------------------------
(* load_files *)

\* self.preview_text.clear(): the pane holds no rendering, its cursor is at 0
PreviewCleared ==
    preview_cursor' = 0 /\ preview_scroll' = "not called" /\ preview_met' = "none"

\* self.file_list.currentItem() when the list has no current item, as after clear()
NoItem == <<>>

\* load_files for the current row: the new file list, the dialog it shows and
\* whether an exception left the function
LoadFiles(kind, files, row) ==
    IF row < 0 \/ row >= NumFolders
    THEN [file_list |-> <<>>, dialog |-> <<>>, raised |-> FALSE]
    ELSE IF ~FolderExists(kind, row)
    THEN [file_list |-> <<>>, dialog |-> <<"warning: folder does not exist">>,
          raised |-> FALSE]
    ELSE LET r == ListDir(kind, files, row)
         IN  CASE r.exc = "none" ->
                    [file_list |-> SelectSeq(r.names, IsPlist), dialog |-> <<>>,
                     raised |-> FALSE]
               [] r.exc = "PermissionError" ->
                    [file_list |-> <<>>, dialog |-> <<"warning: permission error">>,
                     raised |-> FALSE]
               [] OTHER -> [file_list |-> <<>>, dialog |-> <<>>, raised |-> TRUE]

----------------------------------------------------------------------------
(* refresh_all *)

\* a refresh_all that reloads the file list but keeps the catalog it has
RefreshAllKeepsCatalog(kind, files) ==
    LET lf == LoadFiles(kind, files, current_row)
    IN  [all_files |-> all_files, file_list |-> lf.file_list,
         selected |-> {}, file_current |-> NoItem, preview_text |-> <<>>,
         search_input |-> <<>>, search_results |-> <<>>,
         dialog |-> lf.dialog, raised |-> IF lf.raised THEN "load_files" ELSE "none"]

\* refresh_all on the filesystem (kind, files): the widgets' and the catalog's
\* new values; an exception leaving load_all_files or load_files ends it there
RefreshAll(kind, files) ==
    LET la == LoadAllFiles(kind, files)
        lf == LoadFiles(kind, files, current_row)
    IN  IF la.raised
        THEN [all_files |-> la.all_files, file_list |-> file_list,
              selected |-> selected, file_current |-> file_current,
              preview_text |-> preview_text,
              search_input |-> search_input, search_results |-> search_results,
              dialog |-> <<>>, raised |-> "load_all_files"]
        ELSE IF lf.raised
        THEN [all_files |-> la.all_files, file_list |-> lf.file_list,
              selected |-> {}, file_current |-> NoItem, preview_text |-> <<>>,
              search_input |-> search_input, search_results |-> search_results,
              dialog |-> lf.dialog, raised |-> "load_files"]
        ELSE [all_files |-> la.all_files, file_list |-> lf.file_list,
              selected |-> {}, file_current |-> NoItem, preview_text |-> <<>>,
              search_input |-> <<>>, search_results |-> <<>>,
              dialog |-> lf.dialog, raised |-> "none"]

----------------------------------------------------------------------------
(* delete_file *)

\* a confirmation that takes any answer for Yes
ConfirmedWhateverReply(reply) == reply \in {"Yes", "No"}

\* reply == QMessageBox.Yes
Confirmed(reply) == reply = "Yes"

\* what the loop body of delete_file does with one selected item: the test
\* outcomes it met and what it did
Attempt(n, i, kind, files, ro, raises) ==
    LET existed == FileExists(kind, files, i, n)
        writable == FileWritable(ro, i, n)
    IN  [name |-> n, existed |-> existed, writable |-> writable,
         outcome |-> IF ~existed THEN "not found"
                     ELSE IF ~writable THEN "no permission"
                     ELSE IF n \in raises THEN "exception"
                     ELSE "removed"]

RECURSIVE DeleteFrom(_, _, _, _, _, _, _)
\* the for loop of delete_file over the remaining items; acc holds the folder's
\* files, success_count, error_messages and the attempts so far
DeleteFrom(items, acc, i, kind, files, ro, raises) ==
    IF items = <<>> THEN acc
    ELSE LET n == Head(items)
             a == Attempt(n, i, kind, [files EXCEPT ![i] = acc.files], ro, raises)
             next == IF a.outcome = "removed"
                     THEN [acc EXCEPT !.files = @ \ {n},
                                      !.success_count = @ + 1,
                                      !.attempts = Append(@, a)]
                     ELSE [acc EXCEPT !.error_messages =
                                          Append(@, [file |-> n, msg |-> a.outcome]),
                                      !.attempts = Append(@, a)]
         IN  DeleteFrom(Tail(items), next, i, kind, files, ro, raises)

\* a delete loop that stops at the first file it cannot remove
DeleteLoopAborting(items, i, kind, files, ro, raises) ==
    LET bad(k) == Attempt(items[k], i, kind, files, ro, raises).outcome # "removed"
        stop == IF \E k \in 1..Len(items) : bad(k)
                THEN CHOOSE k \in 1..Len(items) : bad(k) /\ \A j \in 1..(k - 1) : ~bad(j)
                ELSE Len(items)
    IN  DeleteFrom(SubSeq(items, 1, stop),
                   [files |-> files[i], success_count |-> 0,
                    error_messages |-> <<>>, attempts |-> <<>>],
                   i, kind, files, ro, raises)

\* the for loop of delete_file over the selected items of folder i; raises is
\* the set of names on which os.remove raises
DeleteLoop(items, i, kind, files, ro, raises) ==
    DeleteFrom(items,
               [files |-> files[i], success_count |-> 0,
                error_messages |-> <<>>, attempts |-> <<>>],
               i, kind, files, ro, raises)

\* the result dialog of delete_file
ResultDialog(count, errors) ==
    IF count > 0 THEN <<"information: delete result">> ELSE <<"warning: delete failed">>

\* self.file_list.selectedItems(), in list order
SelectedItems == SelectSeq(file_list, LAMBDA n : n \in selected)

\* the locals of delete_file do not outlive it
NoDelete ==
    success_count' = 0 /\ error_messages' = <<>> /\ del_attempts' = <<>> /\ del_items' = <<>>

DeleteFile ==
    /\ UNCHANGED <<dialogvars, hlvars>>
    /\ raised = "none"
    /\ \/ /\ SelectedItems = <<>>
          /\ dialog' = <<"information: select a file first">>
          /\ NoDelete
          /\ UNCHANGED <<fsvars, uivars, previewvars, gone, raised, env_steps>>
       \/ /\ SelectedItems # <<>>
          /\ \E reply \in {"Yes", "No"} :
               IF ~Confirmed(reply)
               THEN /\ dialog' = <<"question: confirm delete", reply>>
                    /\ NoDelete
                    /\ UNCHANGED <<fsvars, uivars, previewvars, gone, raised, env_steps>>
               ELSE \E raises \in SUBSET selected :
                    LET d == DeleteLoop(SelectedItems, current_row, dir_kind,
                                        dir_files, file_ro, raises)
                        files1 == [dir_files EXCEPT ![current_row] = d.files]
                        removed == {<<current_row, n>> : n \in dir_files[current_row] \ d.files}
                        r == RefreshAll(dir_kind, files1)
                    IN  /\ dir_files' = files1
                        /\ file_ro' = file_ro \ removed
                        /\ UNCHANGED dir_kind
                        /\ success_count' = d.success_count
                        /\ error_messages' = d.error_messages
                        /\ del_attempts' = d.attempts
                        /\ del_items' = SelectedItems
                        /\ gone' = gone \cup removed
                        /\ all_files' = r.all_files
                        /\ file_list' = r.file_list
                        /\ selected' = r.selected
                        /\ file_current' = r.file_current
                        /\ preview_text' = r.preview_text
                        /\ IF r.raised = "load_all_files"
                           THEN UNCHANGED previewvars ELSE PreviewCleared
                        /\ search_input' = r.search_input
                        /\ search_results' = r.search_results
                        /\ raised' = r.raised
                        /\ dialog' = <<"question: confirm delete", reply>> \o r.dialog \o
                                     (IF r.raised = "none"
                                      THEN ResultDialog(d.success_count, d.error_messages)
                                      ELSE <<>>)
                        /\ UNCHANGED <<current_row, env_steps>>

----------------------------------------------------------------------------
(* The other handlers of the window *)

\* refresh button
Refresh ==
    /\ UNCHANGED <<dialogvars, hlvars>>
    /\ raised = "none"
    /\ LET r == RefreshAll(dir_kind, dir_files)
       IN  /\ all_files' = r.all_files
           /\ file_list' = r.file_list
           /\ selected' = r.selected
           /\ file_current' = r.file_current
           /\ preview_text' = r.preview_text
           /\ IF r.raised = "load_all_files" THEN UNCHANGED previewvars ELSE PreviewCleared
           /\ search_input' = r.search_input
           /\ search_results' = r.search_results
           /\ raised' = r.raised
           /\ dialog' = <<"refresh">> \o r.dialog
    /\ NoDelete
    /\ UNCHANGED <<fsvars, current_row, gone, env_steps>>

\* the texts typed into the search box in the window model
TypedTerms == { <<>>, <<"P","L">> }

\* search button or return in the search box, the box holding text
Search(text) ==
    /\ UNCHANGED <<viewvars, hlvars>>
    /\ raised = "none"
    /\ search_input' = text
    /\ search_results' = SearchFiles(text, all_files)
    /\ dialog' = <<>>
    /\ NoDelete
    /\ UNCHANGED <<fsvars, all_files, current_row, file_list, selected, file_current,
                   preview_text, gone, raised, env_steps>>

\* the rows of the folder list the user makes current
VisitedRows == {0, 1, 4}

\* the user makes another row of the folder list current: currentRowChanged -> load_files
SelectFolder(row) ==
    /\ UNCHANGED <<dialogvars, hlvars>>
    /\ raised = "none"
    /\ row # current_row
    /\ current_row' = row
    /\ LET lf == LoadFiles(dir_kind, dir_files, row)
       IN  /\ file_list' = lf.file_list
           /\ dialog' = lf.dialog
           /\ raised' = IF lf.raised THEN "load_files" ELSE "none"
    /\ selected' = {}
    /\ file_current' = NoItem
    /\ preview_text' = <<>>
    /\ PreviewCleared
    /\ NoDelete
    /\ UNCHANGED <<fsvars, all_files, search_input, search_results, gone, env_steps>>

\* the item of S that comes last in the file list
LastOf(S) ==
    file_list[CHOOSE k \in 1..Len(file_list) :
                 file_list[k] \in S /\ \A j \in (k + 1)..Len(file_list) : file_list[j] \notin S]

\* the user changes the selection of the file list to the items S, clicking
\* them from the top of the list down: the item clicked last becomes the
\* current item
SelectFiles(S) ==
    /\ UNCHANGED <<viewvars, hlvars>>
    /\ raised = "none"
    /\ S # {} /\ S # selected
    /\ selected' = S
    /\ file_current' = LastOf(S)
    /\ dialog' = <<>>
    /\ NoDelete
    /\ UNCHANGED <<fsvars, all_files, current_row, file_list, search_input,
                   search_results, preview_text, gone, raised, env_steps>>

----------------------------------------------------------------------------
(* The filesystem changing under the program *)

\* the folders that hold files, and the one that may be other than a readable directory
FileFolders == {0, 1}
OddFolders == {1}

FileCount(files) ==
    Cardinality({p \in Folders \X (Names \cup SearchNames) : p[2] \in files[p[1]]})

\* A file or a folder disappears, or a folder changes its kind, outside the program.
\* file_ro follows the .plist files only: the program tests no other file.
EnvRemove(i, n) ==
    /\ UNCHANGED <<viewvars, hlvars>>
    /\ raised = "none" /\ env_steps < MaxEnv
    /\ n \in dir_files[i]
    /\ dir_files' = [dir_files EXCEPT ![i] = @ \ {n}]
    /\ file_ro' = file_ro \ {<<i, n>>}
    /\ env_steps' = env_steps + 1
    /\ dialog' = <<>> /\ NoDelete
    /\ UNCHANGED <<dir_kind, uivars, gone, raised>>

EnvSetKind(i, k) ==
    /\ UNCHANGED <<viewvars, hlvars>>
    /\ raised = "none" /\ env_steps < MaxEnv
    /\ k # dir_kind[i]
    /\ dir_kind' = [dir_kind EXCEPT ![i] = k]
    /\ dir_files' = IF k \in {"missing", "notdir"}
                    THEN [dir_files EXCEPT ![i] = {}] ELSE dir_files
    /\ file_ro' = IF k \in {"missing", "notdir"}
                  THEN {p \in file_ro : p[1] # i} ELSE file_ro
    /\ env_steps' = env_steps + 1
    /\ dialog' = <<>> /\ NoDelete
    /\ UNCHANGED <<uivars, gone, raised>>

----------------------------------------------------------------------------
(* The window after construction: init_ui has run load_all_files and load_files *)

InitFS ==
    /\ dir_kind \in [Folders -> Kinds]
    /\ \A i \in Folders \ OddFolders : dir_kind[i] = "dir"
    /\ dir_files \in [Folders -> SUBSET Names]
    /\ \A i \in Folders \ FileFolders : dir_files[i] = {}
    /\ \A i \in Folders : dir_kind[i] \in {"missing", "notdir"} => dir_files[i] = {}
    /\ FileCount(dir_files) <= MaxFiles
    /\ file_ro \in SUBSET {p \in Folders \X Names : p[2] \in dir_files[p[1]] /\ IsPlist(p[2])}

\* init_ui on the filesystem as it is: load_all_files(), then load_files()
WindowStart ==
    /\ current_row = 0
    /\ LET la == LoadAllFiles(dir_kind, dir_files)
           lf == LoadFiles(dir_kind, dir_files, 0)
       IN  /\ all_files = la.all_files
           /\ file_list = IF la.raised THEN <<>> ELSE lf.file_list
           /\ dialog = <<"startup">> \o (IF la.raised THEN <<>> ELSE lf.dialog)
           /\ raised = IF la.raised THEN "load_all_files"
                       ELSE IF lf.raised THEN "load_files" ELSE "none"
    /\ selected = {}
    /\ file_current = NoItem
    /\ search_input = <<>>
    /\ search_results = <<>>
    /\ preview_text = <<>>
    /\ success_count = 0
    /\ error_messages = <<>>
    /\ del_attempts = <<>>
    /\ del_items = <<>>
    /\ gone = {}
    /\ env_steps = 0

\* no file has been previewed or opened
ViewStart ==
    /\ preview_cursor = 0
    /\ preview_scroll = "not called"
    /\ preview_met = "none"
    /\ content_text = <<>>
    /\ content_cursor = 0
    /\ content_scroll = "not called"
    /\ content_met = "none"

\* WorkingDirectoryHighlighter.__init__
HighlighterStart ==
    /\ found_working_dir_key = FALSE
    /\ hl_lines = <<>>
    /\ hl_format = {}
    /\ hl_set = <<>>

NoFile == [exists |-> FALSE, utf8 |-> FALSE, text |-> <<>>]

Init ==
    /\ InitFS
    /\ WindowStart
    /\ file = NoFile
    /\ ViewStart
    /\ HighlighterStart

Next ==
    \/ DeleteFile
    \/ Refresh
    \/ \E text \in TypedTerms : Search(text)
    \/ \E row \in VisitedRows : SelectFolder(row)
    \/ \E S \in SUBSET {file_list[k] : k \in 1..Len(file_list)} : SelectFiles(S)
    \/ \E i \in FileFolders, n \in Names : EnvRemove(i, n)
    \/ \E i \in OddFolders, k \in Kinds : EnvSetKind(i, k)

Spec == Init /\ [][Next]_vars

----------------------------------------------------------------------------
(* Claims about the window: catalog, delete, refresh *)

\* a confirmed delete_file is the handler that ran last (it may have been left
\* by an exception)
DeleteConfirmed == Len(dialog) >= 2 /\ dialog[2] = "Yes"

\* a confirmed delete_file has returned
DeleteReturned == DeleteConfirmed /\ raised = "none"

\* load_all_files is the last thing that touched the catalog and the disk
JustLoaded == dialog # <<>> /\ (dialog[1] \in {"startup", "refresh"} \/ DeleteConfirmed)

Substrings(s) == {SubSeq(s, a, b) : a \in 1..Len(s), b \in 1..Len(s)}

\* the search texts tried against a file name: every substring of it, as
\* written, lowered, and the texts of the window model
ProbeTerms(n) == Substrings(n) \cup Substrings(Lower(n)) \cup TypedTerms

Names_(results, p) ==
    \E k \in 1..Len(results) :
        results[k].folder_index = p[1] /\ results[k].file_name = p[2]

InCatalog(p) ==
    \E j \in DOMAIN all_files : \E k \in 1..Len(all_files[j]) :
        JoinPath(FolderPath(j), all_files[j][k]) = JoinPath(FolderPath(p[1]), p[2])

\* C1: once a confirmed delete_file has returned, every file os.remove
\* succeeded on is absent from all_files under every folder index, the search
\* results list is empty right after the delete, and no later search_files,
\* whatever its term, lists that (folder_index, file_name).
C1_DeletedStaysOut ==
    raised = "none" =>
        /\ DeleteReturned => search_results = <<>> /\ search_input = <<>>
        /\ \A p \in gone :
              /\ ~InCatalog(p)
              /\ ~Names_(search_results, p)
              /\ \A t \in ProbeTerms(p[2]) : ~Names_(SearchFiles(t, all_files), p)

\* a search made after a delete that removed a file finds other files only
C1_Witness ==
    /\ raised = "none" /\ gone # {}
    /\ search_input = <<"P","L">> /\ search_results # <<>>

\* C2 (as stated): in a confirmed delete_file over N selected files every file
\* is attempted, success_count + len(error_messages) = N, and every selected
\* file that exists and is writable is removed.
C2_AsStated ==
    DeleteConfirmed =>
        /\ Len(del_attempts) = Len(del_items)
        /\ success_count + Len(error_messages) = Len(del_items)
        /\ \A k \in 1..Len(del_attempts) :
              del_attempts[k].existed /\ del_attempts[k].writable
                  => ~FileExists(dir_kind, dir_files, current_row, del_attempts[k].name)

\* C2 (amended): in a confirmed delete_file over N selected files every file
\* is attempted in turn whatever the earlier ones met; each is either counted
\* in success_count or gives exactly one entry of error_messages, so
\* success_count + len(error_messages) = N; and every selected file that
\* exists, is writable and on which os.remove does not raise is removed.
C2_BatchNeverAborts ==
    DeleteConfirmed =>
        /\ Len(del_attempts) = Len(del_items)
        /\ \A k \in 1..Len(del_attempts) : del_attempts[k].name = del_items[k]
        /\ success_count + Len(error_messages) = Len(del_items)
        /\ success_count =
              Cardinality({k \in 1..Len(del_attempts) : del_attempts[k].outcome = "removed"})
        /\ \A k \in 1..Len(del_attempts) :
              LET a == del_attempts[k]
                  errs == {e \in 1..Len(error_messages) : error_messages[e].file = a.name}
              IN  /\ a.outcome = "removed" <=> errs = {}
                  /\ Cardinality(errs) <= 1
                  /\ a.outcome = "removed" <=>
                        (a.existed /\ a.writable /\ a.outcome # "exception")
                  /\ a.outcome = "removed"
                        => ~FileExists(dir_kind, dir_files, current_row, a.name)

\* a batch of two whose first file fails and whose second is removed
C2_Witness ==
    /\ DeleteConfirmed /\ Len(del_items) = 2
    /\ del_attempts[1].outcome # "removed" /\ del_attempts[2].outcome = "removed"
    /\ success_count = 1 /\ Len(error_messages) = 1

\* C3: a delete_file with nothing selected, or answered No, removes no file and
\* leaves the catalog, the file list, its selection, the search box and the
\* search results as they were (refresh_all does not run); and the program
\* removes no file but a selected item of the file list, in the current folder.
C3_DeleteNeedsSelectionAndYes ==
    [][ /\ (dialog' = <<"information: select a file first">>
              \/ (Len(dialog') >= 2 /\ dialog'[2] = "No"))
            => UNCHANGED <<fsvars, uivars>>
        /\ env_steps' = env_steps
            => \A i \in Folders : \A n \in dir_files[i] \ dir_files'[i] :
                  /\ i = current_row
                  /\ n \in selected
                  /\ \E k \in 1..Len(file_list) : file_list[k] = n
      ]_vars

\* a delete answered No, with files selected and search results on display
C3_Witness ==
    /\ dialog = <<"question: confirm delete", "No">>
    /\ selected # {} /\ search_results # <<>>
    /\ \A n \in selected : FileExists(dir_kind, dir_files, current_row, n)

\* C10 (as stated): load_all_files never fails: no exception leaves it, the
\* catalog has one entry for each of the five folder indices, every stored name
\* ends in .plist, and after a load a folder that does not exist or cannot be
\* listed has an empty mapping while the others hold their .plist files.
C10_AsStated ==
    /\ raised # "load_all_files"
    /\ DOMAIN all_files = Folders
    /\ \A i \in DOMAIN all_files : \A k \in 1..Len(all_files[i]) : IsPlist(all_files[i][k])
    /\ JustLoaded =>
          \A i \in DOMAIN all_files :
              IF dir_kind[i] = "dir"
              THEN {all_files[i][k] : k \in 1..Len(all_files[i])}
                      = {n \in dir_files[i] : IsPlist(n)}
              ELSE all_files[i] = <<>>

----------------------------------------------------------------------------
(* The search model: search_files over catalogs of names with spaces and mixed case *)

\* str.upper() on one character
UpperChar(c) ==
    IF \E k \in 1..Len(LowerChars) : LowerChars[k] = c
    THEN UpperChars[CHOOSE k \in 1..Len(LowerChars) : LowerChars[k] = c]
    ELSE c

RECURSIVE CaseVariants(_)
\* the spellings of s in every letter case
CaseVariants(s) ==
    IF s = <<>> THEN {<<>>}
    ELSE {<<c>> \o r : c \in {LowerChar(Head(s)), UpperChar(Head(s))},
                       r \in CaseVariants(Tail(s))}

\* whether t spells, in some letter case, the piece of f that starts at offset a
SpellsAt(t, f, a) ==
    /\ a + Len(t) <= Len(f)
    /\ \A k \in 1..Len(t) : t[k] \in {LowerChar(f[a + k]), UpperChar(f[a + k])}

\* t is a substring of f in some letter case (the empty text is one)
SubstringAnyCase(t, f) == \E a \in 0..Len(f) : SpellsAt(t, f, a)

\* the texts searched for: every substring of a name in every letter case, the
\* empty text, and a text no name holds
SearchTexts ==
    UNION {CaseVariants(t) : t \in UNION {Substrings(n) : n \in SearchNames}}
        \cup {<<>>, <<"z">>}

SearchFS ==
    /\ dir_kind = [i \in Folders |-> "dir"]
    /\ dir_files \in [Folders -> SUBSET SearchNames]
    /\ \A i \in Folders \ FileFolders : dir_files[i] = {}
    /\ FileCount(dir_files) <= MaxFiles
    /\ file_ro = {}

InitSearch ==
    /\ SearchFS
    /\ WindowStart
    /\ file = NoFile
    /\ ViewStart
    /\ HighlighterStart

\* search_files is the handler that ran last
SearchRan == dialog = <<>>

\* one search of each text on each catalog (a second search reads the same
\* catalog and replaces the results of the first)
NextSearch == \E text \in SearchTexts : ~SearchRan /\ Search(text)

SpecSearch == InitSearch /\ [][NextSearch]_vars

\* text is empty or whitespace only
IsBlank(text) == \A k \in 1..Len(text) : text[k] = " "

\* C5 (as stated): search_files with an empty or whitespace-only term yields an
\* empty result list for every catalog, also one with names containing spaces.
C5_AsStated == SearchRan /\ IsBlank(search_input) => search_results = <<>>

----------------------------------------------------------------------------
(* The markers the renderer and the highlighter look for *)

\* '/Applications/'
Apps ==
    <<"/","A","p","p","l","i","c","a","t","i","o","n","s","/">>
\* '/Application Support/'
AppSupport ==
    <<"/","A","p","p","l","i","c","a","t","i","o","n"," ","S","u","p","p","o",
      "r","t","/">>
\* '/Library/'
Library ==
    <<"/","L","i","b","r","a","r","y","/">>
\* '<key>WorkingDirectory</key>'
WDKey ==
    <<"<","k","e","y",">","W","o","r","k","i","n","g","D","i","r","e","c","t",
      "o","r","y","<","/","k","e","y",">">>
\* '<string>' and '</string>'
StringOpen ==
    <<"<","s","t","r","i","n","g",">">>
StringClose ==
    <<"<","/","s","t","r","i","n","g",">">>
Quote == <<"\"">>

----------------------------------------------------------------------------
(* _scroll_to_working_directory, load_file_preview, FileContentDialog *)

\* path_patterns of _scroll_to_working_directory, in the order of the loop
ScrollPatterns == <<Apps, AppSupport>>

\* a scroll that goes to whichever marker comes first in the text
ScrollToEarliestMarker(content, cursor) ==
    LET marks == {Apps, AppSupport, WDKey}
        at == {Find(content, m, 0) : m \in marks} \ {-1}
    IN  IF at = {} THEN [found |-> FALSE, cursor |-> cursor]
        ELSE [found |-> TRUE, cursor |-> CHOOSE k \in at : \A j \in at : k <= j]

\* _scroll_to_working_directory on a widget holding content, its cursor at
\* cursor: the value returned and the cursor's new position
ScrollToWorkingDirectory(content, cursor) ==
    LET hit == {k \in 1..Len(ScrollPatterns) : Find(content, ScrollPatterns[k], 0) # -1}
        first == CHOOSE k \in hit : \A j \in hit : k <= j
        working_dir_pos == Find(content, WDKey, 0)
    IN  IF hit # {}
        THEN [found |-> TRUE, cursor |-> Find(content, ScrollPatterns[first], 0)]
        ELSE IF working_dir_pos # -1
        THEN [found |-> TRUE, cursor |-> working_dir_pos]
        ELSE [found |-> FALSE, cursor |-> cursor]

\* the placeholders shown instead of a file's content
ErrorText(e) == <<"cannot read file content: ", e>>
MissingText == <<"file does not exist">>

\* what plutil -convert xml1 -o - prints for a file it converts: a rendering of
\* the document, not the bytes of the file
XmlHead == <<"<","?","x","m","l","?",">">>
ToolStdout(f) == XmlHead \o f.text

ToolOutcomes == {"ok", "fail", "nolaunch"}

\* the try block shared by load_file_preview and load_file_content on file f,
\* tool being what subprocess.run does: the text set, the cursor and what
\* _scroll_to_working_directory returned
TryRender(f, tool) ==
    IF tool = "nolaunch"
    THEN [text |-> ErrorText("subprocess.run"), cursor |-> 0, scroll |-> "not called"]
    ELSE IF tool # "ok" /\ ~f.utf8
    THEN [text |-> ErrorText("open/read"), cursor |-> 0, scroll |-> "not called"]
    ELSE LET content == IF tool = "ok" THEN ToolStdout(f) ELSE f.text
             sc == ScrollToWorkingDirectory(content, 0)
         IN  [text |-> content, cursor |-> sc.cursor,
              scroll |-> IF sc.found THEN "found" ELSE "not found"]

\* file_selected -> load_file_preview(file_path)
LoadFilePreview(tool) ==
    /\ LET r == IF file.exists THEN TryRender(file, tool)
                ELSE [text |-> MissingText, cursor |-> 0, scroll |-> "not called"]
       IN  /\ preview_text' = r.text
           /\ preview_cursor' = r.cursor
           /\ preview_scroll' = r.scroll
    /\ preview_met' = IF file.exists THEN tool ELSE "missing"
    /\ dialog' = <<>>
    /\ UNCHANGED <<fsvars, all_files, current_row, file_list, selected, file_current,
                   search_input, search_results, locals, gone, raised, env_steps, file, content_text,
                   content_cursor, content_scroll, content_met, hlvars>>

\* open_file -> _show_file_content(file_path) -> FileContentDialog(file_path)
ShowFileContent(tool) ==
    /\ IF file.exists
       THEN LET r == TryRender(file, tool)
            IN  /\ content_text' = r.text
                /\ content_cursor' = r.cursor
                /\ content_scroll' = r.scroll
                /\ content_met' = tool
                /\ dialog' = <<>>
       ELSE /\ content_met' = "missing"
            /\ dialog' = <<"warning: file does not exist">>
            /\ UNCHANGED <<content_text, content_cursor, content_scroll>>
    /\ UNCHANGED <<fsvars, uivars, locals, gone, raised, env_steps, file, preview_cursor,
                   preview_scroll, preview_met, hlvars>>

\* the pieces the rendered documents are made of, and the documents
MaxPieces == 3
Pieces == {Apps, AppSupport, WDKey, <<"x">>}

RECURSIVE TextsOf(_)
TextsOf(n) ==
    IF n = 0 THEN {<<>>}
    ELSE LET T == TextsOf(n - 1) IN T \cup {t \o f : t \in T, f \in Pieces}

Texts == TextsOf(MaxPieces)

InitRender ==
    /\ dir_kind = [i \in Folders |-> "dir"]
    /\ dir_files = [i \in Folders |-> {}]
    /\ file_ro = {}
    /\ WindowStart
    /\ \/ file = NoFile
       \/ \E t \in Texts, u \in BOOLEAN : file = [exists |-> TRUE, utf8 |-> u, text |-> t]
    /\ ViewStart
    /\ HighlighterStart

NextRender ==
    \/ \E tool \in ToolOutcomes : LoadFilePreview(tool)
    \/ \E tool \in ToolOutcomes : ShowFileContent(tool)

SpecRender == InitRender /\ [][NextRender]_vars

IsErrorText(t) == \E e \in {"subprocess.run", "open/read"} : t = ErrorText(e)

\* C4 (as stated): for a file that exists and reads as UTF-8, when plutil
\* exits non-zero or cannot be launched, the preview and the viewer hold the
\* text of a direct read; the error placeholder shows only when the raw read fails.
C4_AsStated ==
    /\ preview_met \in {"fail", "nolaunch"} /\ file.exists /\ file.utf8
          => preview_text = file.text
    /\ content_met \in {"fail", "nolaunch"} /\ file.exists /\ file.utf8
          => content_text = file.text
    /\ IsErrorText(preview_text) => ~file.utf8
    /\ IsErrorText(content_text) => ~file.utf8

\* where _scroll_to_working_directory must leave the cursor of a widget
\* holding text, having returned scroll, by the priority of the markers
ScrollIsRight(text, cursor, scroll) ==
    LET first(m) == OccursAt(text, m, cursor) /\ \A j \in 0..(cursor - 1) : ~OccursAt(text, m, j)
    IN  IF Contains(text, Apps) THEN scroll = "found" /\ first(Apps)
        ELSE IF Contains(text, AppSupport) THEN scroll = "found" /\ first(AppSupport)
        ELSE IF Contains(text, WDKey) THEN scroll = "found" /\ first(WDKey)
        ELSE scroll = "not found" /\ cursor = 0

\* C9: _scroll_to_working_directory goes to the first '/Applications/' if the
\* text has one; otherwise to the first '/Application Support/'; otherwise to
\* '<key>WorkingDirectory</key>'; otherwise it returns False and leaves the
\* cursor where it was. A path marker wins over an earlier key, and
\* '/Applications/' over an earlier '/Application Support/'.
C9_ScrollPriority ==
    /\ preview_scroll # "not called"
          => ScrollIsRight(preview_text, preview_cursor, preview_scroll)
    /\ content_scroll # "not called"
          => ScrollIsRight(content_text, content_cursor, content_scroll)

\* the key first, then '/Application Support/', then '/Applications/': the
\* cursor goes to the last of the three
C9_Witness ==
    /\ preview_text = WDKey \o AppSupport \o Apps
    /\ preview_scroll = "found"
    /\ preview_cursor = Len(WDKey) + Len(AppSupport)

----------------------------------------------------------------------------
(* WorkingDirectoryHighlighter.highlightBlock *)

\* self.path_patterns, in the order of the loop
PathPatterns == <<Apps, AppSupport, Library>>

\* QSyntaxHighlighter.setFormat(start, count, working_dir_format) on a block of
\* length len whose emphasized offsets are fmt
SetFormat(fmt, start, count, len) ==
    fmt \cup {k \in start..(start + count - 1) : 0 <= k /\ k < len}

\* the body of the for loop of highlightBlock for the pattern found in text:
\* the offsets that carry working_dir_format when it returns
FormatFor(text, pattern) ==
    LET whole == SetFormat({}, 0, Len(text), Len(text))
        start == Find(text, pattern, 0)
        quote_start == RFind(text, Quote, 0, start)
        quote_end == Find(text, Quote, start)
        tag_start == RFind(text, StringOpen, 0, start)
        tag_end == Find(text, StringClose, start) + Len(StringClose)
    IN  IF Contains(Slice(text, start, Len(text)), Quote)
        THEN IF quote_start # -1 /\ quote_end # -1
             THEN SetFormat(whole, quote_start, quote_end - quote_start + 1, Len(text))
             ELSE whole
        ELSE IF Contains(Slice(text, 0, start), StringOpen)
                /\ Contains(Slice(text, start, Len(text)), StringClose)
        THEN IF tag_start # -1 /\ tag_end # -1
             THEN SetFormat(whole, tag_start, tag_end - tag_start, Len(text))
             ELSE whole
        ELSE whole

\* highlightBlock(text) with found_working_dir_key = flag: the format of the
\* block, the flag afterwards, and whether the flag was assigned True
HighlightBlock(text, flag) ==
    LET hit == {k \in 1..Len(PathPatterns) : Contains(text, PathPatterns[k])}
        first == CHOOSE k \in hit : \A j \in hit : k <= j
    IN  IF hit # {}
        THEN [format |-> FormatFor(text, PathPatterns[first]), flag |-> flag, set |-> FALSE]
        ELSE IF Contains(text, WDKey)
        THEN [format |-> {}, flag |-> TRUE, set |-> TRUE]
        ELSE IF flag /\ Contains(text, StringOpen)
        THEN [format |-> {}, flag |-> FALSE, set |-> FALSE]
        ELSE IF ~Contains(text, StringOpen)
        THEN [format |-> {}, flag |-> FALSE, set |-> FALSE]
        ELSE [format |-> {}, flag |-> flag, set |-> FALSE]

\* '  <string>/Library/LaunchAgents/com.foo.plist</string>'
LineTagged ==
    <<" "," ","<","s","t","r","i","n","g",">","/","L","i","b","r","a","r","y",
          "/","L","a","u","n","c","h","A","g","e","n","t","s","/","c","o","m",
          ".","f","o","o",".","p","l","i","s","t","<","/","s","t","r","i","n",
          "g",">">>
\* 'Program = "/Applications/Foo.app/Contents/MacOS/Foo"'
LineQuoted ==
    <<"P","r","o","g","r","a","m"," ","="," ","\"","/","A","p","p","l","i","c",
          "a","t","i","o","n","s","/","F","o","o",".","a","p","p","/","C","o",
          "n","t","e","n","t","s","/","M","a","c","O","S","/","F","o","o","\"">>
\* '<key>WorkingDirectory</key>'
LineKey ==
    <<"<","k","e","y",">","W","o","r","k","i","n","g","D","i","r","e","c","t",
          "o","r","y","<","/","k","e","y",">">>
\* '<string>/Applications/Foo.app</string>'
LineAppString ==
    <<"<","s","t","r","i","n","g",">","/","A","p","p","l","i","c","a","t","i",
          "o","n","s","/","F","o","o",".","a","p","p","<","/","s","t","r","i",
          "n","g",">">>
\* '<string>/tmp</string>'
LineTmpString ==
    <<"<","s","t","r","i","n","g",">","/","t","m","p","<","/","s","t","r","i",
          "n","g",">">>
\* '<true/>'
LineTrue ==
    <<"<","t","r","u","e","/",">">>
\* '/Application Support/x" y'
LineHalfQuoted ==
    <<"/","A","p","p","l","i","c","a","t","i","o","n"," ","S","u","p","p","o",
          "r","t","/","x","\""," ","y">>

\* the blocks of the documents highlighted, and how many blocks a document has
HLLines == {LineTagged, LineQuoted, LineKey, LineAppString, LineTmpString,
            LineTrue, LineHalfQuoted}
MaxLines == 3

\* the highlighter is handed the next block of its document
Highlight(text) ==
    /\ Len(hl_lines) < MaxLines
    /\ LET r == HighlightBlock(text, found_working_dir_key)
       IN  /\ hl_format' = r.format
           /\ found_working_dir_key' = r.flag
           /\ hl_set' = Append(hl_set, r.set)
    /\ hl_lines' = Append(hl_lines, text)
    /\ UNCHANGED <<fsvars, uivars, opvars, viewvars>>

InitHighlighter ==
    /\ dir_kind = [i \in Folders |-> "dir"]
    /\ dir_files = [i \in Folders |-> {}]
    /\ file_ro = {}
    /\ WindowStart
    /\ file = NoFile
    /\ ViewStart
    /\ HighlighterStart

NextHighlighter == \E text \in HLLines : Highlight(text)

SpecHighlighter == InitHighlighter /\ [][NextHighlighter]_vars

\* the last block highlighted
LastLine == hl_lines[Len(hl_lines)]

\* the path marker of a line: the first pattern of the list the line holds, at
\* its first offset
MarkerAt(text) ==
    LET hit == {k \in 1..Len(PathPatterns) : Contains(text, PathPatterns[k])}
        p == PathPatterns[CHOOSE k \in hit : \A j \in hit : k <= j]
    IN  CHOOSE a \in 0..Len(text) : OccursAt(text, p, a) /\ \A j \in 0..(a - 1) : ~OccursAt(text, p, j)

HasMarker(text) == \E k \in 1..Len(PathPatterns) : Contains(text, PathPatterns[k])

\* the offsets before a at which p occurs, and those from a on
Before(text, p, a) == {k \in 0..(a - 1) : OccursAt(text, p, k) /\ k + Len(p) <= a}
From(text, p, a) == {k \in a..Len(text) : OccursAt(text, p, k)}

Max(S) == CHOOSE k \in S : \A j \in S : j <= k
Min(S) == CHOOSE k \in S : \A j \in S : k <= j

\* the span enclosing the marker: the quoted string around it if there is one,
\* else the <string>...</string> around it; {} when nothing encloses it
EnclosingSpan(text) ==
    LET a == MarkerAt(text)
    IN  IF Before(text, Quote, a) # {} /\ From(text, Quote, a) # {}
        THEN Max(Before(text, Quote, a))..Min(From(text, Quote, a))
        ELSE IF Before(text, StringOpen, a) # {} /\ From(text, StringClose, a) # {}
        THEN Max(Before(text, StringOpen, a))
                ..(Min(From(text, StringClose, a)) + Len(StringClose) - 1)
        ELSE {}

\* C7 (as stated): when the path marker of a line is enclosed by a quoted
\* string or by <string>...</string>, highlightBlock emphasizes exactly the
\* enclosing span, opening to closing delimiter, and no character outside it.
C7_AsStated ==
    hl_lines # <<>> /\ HasMarker(LastLine) /\ EnclosingSpan(LastLine) # {}
        => hl_format = EnclosingSpan(LastLine)

\* C8 (as stated): if highlightBlock sets found_working_dir_key on line k, the
\* flag is False after line k+1, whatever that line holds, unless line k+1
\* sets it again; and the flag is False after any line with no '<string>' and
\* no working-directory key.
C8_AsStated ==
    LET n == Len(hl_lines)
    IN  /\ n >= 2 /\ hl_set[n - 1] /\ ~hl_set[n] => found_working_dir_key = FALSE
        /\ n >= 1 /\ ~Contains(LastLine, StringOpen) /\ ~Contains(LastLine, WDKey)
              => found_working_dir_key = FALSE

----------------------------------------------------------------------------
(* search_result_selected *)

\* the text of the file at folders[i]/n, one text per path
FileText(i, n) == <<FolderPath(i), "/">> \o n

\* the file at folders[i]/n as load_file_preview finds it on the disk
FileOnDisk(kind, files, i, n) ==
    IF FileExists(kind, files, i, n)
    THEN [exists |-> TRUE, utf8 |-> TRUE, text |-> FileText(i, n)]
    ELSE NoFile

\* load_file_preview on f, tool being what subprocess.run does: the text set
\* in the preview pane, its cursor, what the scroll returned and what was met
PreviewOf(f, tool) ==
    IF f.exists
    THEN LET r == TryRender(f, tool)
         IN  [text |-> r.text, cursor |-> r.cursor, scroll |-> r.scroll, met |-> tool]
    ELSE [text |-> MissingText, cursor |-> 0, scroll |-> "not called", met |-> "missing"]

\* self.folder_list.setCurrentRow(row): currentRowChanged, and with it
\* load_files, fires only when the row changes
SetCurrentRow(row, kind, files) ==
    IF row = current_row
    THEN [file_list |-> file_list, selected |-> selected, file_current |-> file_current,
          preview_text |-> preview_text, cleared |-> FALSE, dialog |-> <<>>,
          raised |-> FALSE]
    ELSE LET lf == LoadFiles(kind, files, row)
         IN  [file_list |-> lf.file_list, selected |-> {}, file_current |-> NoItem,
              preview_text |-> <<>>, cleared |-> TRUE, dialog |-> lf.dialog,
              raised |-> lf.raised]

\* a search_result_selected that looks for the file in the list as it was
\* before the folder was reselected
ResultSelectedInOldList(result, kind, files, tool) ==
    LET sr == SetCurrentRow(result.folder_index, kind, files)
        in_list == \E k \in 1..Len(file_list) : file_list[k] = result.file_name
        pv == PreviewOf(FileOnDisk(kind, files, result.folder_index, result.file_name), tool)
    IN  [file_list |-> sr.file_list, dialog |-> sr.dialog, raised |-> sr.raised,
         selected |-> IF in_list /\ ~sr.raised THEN {result.file_name} ELSE sr.selected,
         file_current |-> IF in_list /\ ~sr.raised THEN result.file_name
                          ELSE sr.file_current,
         preview_text |-> IF in_list /\ ~sr.raised THEN pv.text ELSE sr.preview_text,
         previewed |-> in_list /\ ~sr.raised, preview |-> pv, cleared |-> sr.cleared]

\* search_result_selected(item) for the item holding result: the widgets
\* afterwards; previewed says whether load_file_preview ran, preview what it set
ResultSelected(result, kind, files, tool) ==
    LET sr == SetCurrentRow(result.folder_index, kind, files)
        in_list == \E k \in 1..Len(sr.file_list) : sr.file_list[k] = result.file_name
        pv == PreviewOf(FileOnDisk(kind, files, result.folder_index, result.file_name), tool)
    IN  [file_list |-> sr.file_list, dialog |-> sr.dialog, raised |-> sr.raised,
         selected |-> IF in_list /\ ~sr.raised THEN {result.file_name} ELSE sr.selected,
         file_current |-> IF in_list /\ ~sr.raised THEN result.file_name
                          ELSE sr.file_current,
         preview_text |-> IF in_list /\ ~sr.raised THEN pv.text ELSE sr.preview_text,
         previewed |-> in_list /\ ~sr.raised, preview |-> pv, cleared |-> sr.cleared]

\* the user clicks item k of the search results list
SearchResultSelected(k, tool) ==
    /\ raised = "none"
    /\ k \in 1..Len(search_results)
    /\ LET result == search_results[k]
           r == ResultSelected(result, dir_kind, dir_files, tool)
       IN  /\ current_row' = result.folder_index
           /\ file_list' = r.file_list
           /\ selected' = r.selected
           /\ file_current' = r.file_current
           /\ preview_text' = r.preview_text
           /\ dialog' = <<"result selected">> \o r.dialog
           /\ raised' = IF r.raised THEN "load_files" ELSE "none"
           /\ IF r.previewed
              THEN /\ preview_cursor' = r.preview.cursor
                   /\ preview_scroll' = r.preview.scroll
                   /\ preview_met' = r.preview.met
              ELSE IF r.cleared THEN PreviewCleared ELSE UNCHANGED previewvars
    /\ NoDelete
    /\ UNCHANGED <<fsvars, all_files, search_input, search_results, gone, env_steps,
                   file, content_text, content_cursor, content_scroll, content_met,
                   hlvars>>

\* the window with its search results list in use
InitSelect ==
    /\ InitFS
    /\ file_ro = {}
    /\ WindowStart
    /\ file = NoFile
    /\ ViewStart
    /\ HighlighterStart

\* search_result_selected is the handler that ran last
ResultClicked == dialog # <<>> /\ dialog[1] = "result selected"

\* folder selections, searches, refreshes, deletes and changes of the disk in
\* any order, and then a click on a search result
NextSelect ==
    \/ ~ResultClicked /\ Next
    \/ \E k \in 1..(MaxFiles + 1), tool \in ToolOutcomes :
          ~ResultClicked /\ SearchResultSelected(k, tool)

SpecSelect == InitSelect /\ [][NextSelect]_vars

\* the items of a list widget
ItemsOf(list) == {list[k] : k \in 1..Len(list)}

\* the .plist files of folder i on the disk, as a listing of it shows them
PlistOnDisk(i) ==
    IF dir_kind[i] = "dir" THEN {n \in dir_files[i] : EndsWith(n, PlistExt)} ELSE {}

\* the renderings of the existing file folders[i]/n: the tool's output, or the
\* text read directly, or the placeholder for a failure to read
Renderings(i, n) ==
    LET f == [exists |-> TRUE, utf8 |-> TRUE, text |-> FileText(i, n)]
    IN  {ToolStdout(f), f.text, ErrorText("subprocess.run")}

\* the results a click can land on
ResultRows == 1..(MaxFiles + 1)

\* C11 (as stated): after search_result_selected for a result (folder_index,
\* file_name) the folder list's current row is folder_index, the file list
\* shows that folder's files with file_name as the current item, and the
\* preview pane holds the rendering of folder_path/file_name, whatever
\* happened before and however old the catalog behind the search is.
C11_AsStated ==
    [][\A k \in ResultRows, tool \in ToolOutcomes :
          SearchResultSelected(k, tool) =>
              LET result == search_results[k]
              IN  /\ current_row' = result.folder_index
                  /\ ItemsOf(file_list') = PlistOnDisk(result.folder_index)
                  /\ file_current' = result.file_name
                  /\ preview_text' \in Renderings(result.folder_index, result.file_name)]_vars

\* C11 (amended): after search_result_selected for a result (folder_index,
\* file_name) the folder list's current row is folder_index; the file list is
\* listed again from the disk if folder_index was not the current row, and is
\* left as it was otherwise; if file_name is then in the file list it is the
\* current item and the preview pane holds what load_file_preview gives for
\* folder_path/file_name (its rendering, or the placeholder for a file that is
\* no longer there); if it is not, the handler makes no item current and
\* renders nothing.
C11_ResultReselects ==
    [][\A k \in ResultRows, tool \in ToolOutcomes :
          SearchResultSelected(k, tool) =>
              LET result == search_results[k]
                  i == result.folder_index
                  n == result.file_name
                  same == (i = current_row)
              IN  /\ current_row' = i
                  /\ IF same THEN file_list' = file_list
                     ELSE /\ ItemsOf(file_list') = PlistOnDisk(i)
                          /\ Len(file_list') = Cardinality(PlistOnDisk(i))
                  /\ IF n \in ItemsOf(file_list')
                     THEN /\ file_current' = n
                          /\ IF n \in dir_files[i]
                             THEN preview_text' \in Renderings(i, n)
                             ELSE preview_text' = MissingText
                     ELSE /\ file_current' = IF same THEN file_current ELSE NoItem
                          /\ preview_text' = IF same THEN preview_text ELSE <<>>]_vars

\* a result of folder 1 has been clicked: its file is the current item of the
\* file list of folder 1 and the preview pane holds the tool's rendering of it
C11_Witness ==
    /\ dialog = <<"result selected">>
    /\ current_row = 1
    /\ file_current # NoItem /\ file_current \in ItemsOf(file_list)
    /\ \E k \in 1..Len(search_results) :
          search_results[k] = SearchResult(file_current, FolderPath(1), 1)
    /\ preview_met = "ok"
    /\ preview_text = XmlHead \o FileText(1, file_current)

\* C11 as stated, in the runs where nothing outside the program touches the disk
C11_Undisturbed ==
    [][\A k \in ResultRows, tool \in ToolOutcomes :
          env_steps = 0 /\ SearchResultSelected(k, tool) =>
              LET result == search_results[k]
              IN  /\ current_row' = result.folder_index
                  /\ ItemsOf(file_list') = PlistOnDisk(result.folder_index)
                  /\ file_current' = result.file_name
                  /\ preview_text' \in Renderings(result.folder_index, result.file_name)]_vars

====
